---- MODULE Spec2Model ----
(***************************************************************************)
(* A model of gpjax/likelihoods.py: the likelihood objects (Gaussian,      *)
(* Bernoulli, Poisson), their constructors, link functions, predictive     *)
(* transforms and the expected-log-likelihood delegation to an integrator. *)
(*                                                                         *)
(* Numbers.  Arrays are sequences of integers.  A scalar and a one-element *)
(* array are both a sequence of length 1 (they broadcast alike).  The      *)
(* batch arrays y, mean and variance of expected_log_likelihood have shape *)
(* [N, 1] and are sequences of N integers.  Probabilities are exact        *)
(* rationals over the denominator ProbDen; the values of erf and exp come  *)
(* from tables at the resolution 1/Unit.  Log-densities are kept as exact  *)
(* terms (records), never rounded.                                         *)
(***************************************************************************)
EXTENDS Integers, Sequences

\* ---------------------------------------------------------------- bounds
MaxInstances == 2
MaxN == 2
MaxX == 5

VARIABLES liks, ctor, last
vars == <<liks, ctor, last>>

\* ---------------------------------------------------------- value markers
None == [tag |-> "None"]
Raises == [tag |-> "raises"]
Array(d) == [tag |-> "array", data |-> d]

\* ------------------------------------------------------- numeric helpers
\* 1 / jitter of inv_probit (jitter = 1e-3); also the fixed-point resolution.
JitterInv == 1000
Unit == JitterInv
ProbDen == 2 * Unit * Unit

Abs(a) == IF a < 0 THEN -a ELSE a
Max2(a, b) == IF a < b THEN b ELSE a

RECURSIVE SqrtFrom(_, _)
SqrtFrom(a, r) == IF (r + 1) * (r + 1) > a THEN r ELSE SqrtFrom(a, r + 1)
\* jnp.sqrt on the non-negative integers (exact on perfect squares).
Sqrt(a) == SqrtFrom(a, 0)

\* Array division a / b, rounded toward zero (exact when b divides a).
Divide(a, b) == IF a >= 0 THEN a \div b ELSE -((-a) \div b)

\* jsp.special.erf(x / sqrt(2)) in units of 1/Unit; saturates to exactly
\* +-1 for large |x| as the floating-point erf does.
ErfOverSqrt2(x) ==
    LET e(a) == CASE a = 0 -> 0
                  [] a = 1 -> 683
                  [] a = 2 -> 954
                  [] a = 3 -> 997
                  [] OTHER -> Unit
    IN IF x < 0 THEN -e(-x) ELSE e(x)

\* jnp.exp(f) in units of 1/Unit (table, clamped at |f| = 6).
Exp(f) ==
    LET c == IF f > 6 THEN 6 ELSE IF f < -6 THEN -6 ELSE f
        t == <<2, 7, 18, 50, 135, 368, 1000, 2718, 7389, 20086, 54598,
               148413, 403429>>
    IN t[c + 7]

\* inv_probit adding the jitter without the affine shrink of the raw probit.
inv_probit_noshrink(x) == (Unit + ErfOverSqrt2(x)) * Unit + 2 * Unit

\* inv_probit(x) = 0.5 * (1 + erf(x / sqrt(2))) * (1 - 2 * jitter) + jitter,
\* as the numerator of an exact fraction over ProbDen.
inv_probit(x) == (Unit + ErfOverSqrt2(x)) * (Unit - 2) + 2 * Unit

\* ----------------------------------------------------------- integrators
\* The two default-argument objects are built once, when the constructors
\* are defined; the caller's objects exist before the likelihoods do.
GHQuadratureIntegrator(n) == [cls |-> "GHQuadratureIntegrator", id |-> n]
AnalyticalGaussianIntegrator(n) == [cls |-> "AnalyticalGaussianIntegrator", id |-> n]
AbstractDefault == GHQuadratureIntegrator(1)
GaussianDefault == AnalyticalGaussianIntegrator(2)
CallerIntegrators == {GHQuadratureIntegrator(3), AnalyticalGaussianIntegrator(4)}

\* A default built afresh by every constructor call (k-th construction).
DefaultIntegratorFresh(cls, k) ==
    IF cls = "Gaussian" THEN AnalyticalGaussianIntegrator(10 + k)
    ELSE GHQuadratureIntegrator(10 + k)

\* A Gaussian that inherits the base class's default.
DefaultIntegratorInherited(cls, k) == AbstractDefault

\* The value of the omitted `integrator` argument of class cls's __init__.
DefaultIntegrator(cls, k) ==
    IF cls = "Gaussian" THEN GaussianDefault ELSE AbstractDefault

\* ------------------------------------------------------------ parameters
AllPositive(v) == \A k \in 1..Len(v) : v[k] > 0

\* gpjax.parameters.PositiveReal(value): a constrained parameter; a value
\* that is not strictly positive is refused at construction.
PositiveReal(v) ==
    IF AllPositive(v) THEN [kind |-> "PositiveReal", value |-> v] ELSE Raises

\* gpjax.parameters.Static(value): an unconstrained constant wrapper.
Static(v) == [kind |-> "Static", value |-> v]

RawArg(v) == [kind |-> "raw", value |-> v]

\* ---------------------------------------------------------- constructors
\* __init__ refusing the analytic integrator for a non-Gaussian class.
AbstractLikelihood__init__Guarded(self, num_datapoints, integrator) ==
    [self EXCEPT !.num_datapoints = num_datapoints,
                 !.integrator =
                     IF self.cls # "Gaussian"
                        /\ integrator.cls = "AnalyticalGaussianIntegrator"
                     THEN AbstractDefault ELSE integrator]

\* AbstractLikelihood.__init__: stores both arguments, unchecked.
AbstractLikelihood__init__(self, num_datapoints, integrator) ==
    [self EXCEPT !.num_datapoints = num_datapoints,
                 !.integrator = integrator]

\* Gaussian.__init__ storing a raw value without wrapping it.
Gaussian__init__NoWrap(self, num_datapoints, obs_stddev, integrator) ==
    AbstractLikelihood__init__(
        [self EXCEPT !.obs_stddev = obs_stddev], num_datapoints, integrator)

\* Gaussian.__init__: wraps anything that is neither a PositiveReal nor a
\* Static into a PositiveReal, stores it, then runs the base __init__.
Gaussian__init__(self, num_datapoints, obs_stddev, integrator) ==
    LET wrapped == IF obs_stddev.kind \notin {"PositiveReal", "Static"}
                   THEN PositiveReal(obs_stddev.value)
                   ELSE obs_stddev
    IN IF wrapped = Raises THEN Raises
       ELSE AbstractLikelihood__init__(
                [self EXCEPT !.obs_stddev = wrapped], num_datapoints, integrator)

\* A fresh object of class cls, before __init__ has run.
New(cls) == [cls |-> cls, num_datapoints |-> 0, integrator |-> None,
             obs_stddev |-> None]

\* cls(num_datapoints, [obs_stddev], [integrator]); integ = None when the
\* argument is omitted, k = the number of earlier constructions.
Instantiate(cls, num_datapoints, obs_stddev, integ, k) ==
    LET integrator == IF integ = None THEN DefaultIntegrator(cls, k) ELSE integ
    IN IF cls = "Gaussian"
       THEN Gaussian__init__(New(cls), num_datapoints, obs_stddev, integrator)
       ELSE AbstractLikelihood__init__(New(cls), num_datapoints, integrator)

\* ---------------------------------------------------------- link functions
\* Gaussian.link_function: Normal(loc = f, scale = obs_stddev.value); the
\* astype(f.dtype) cast keeps the value.
Gaussian_link_function(self, f) ==
    [family |-> "Normal", loc |-> f, scale |-> self.obs_stddev.value]

\* Bernoulli.link_function: Bernoulli(probs = inv_probit(f)), elementwise.
Bernoulli_link_function(self, f) ==
    [family |-> "Bernoulli", probs |-> [k \in 1..Len(f) |-> inv_probit(f[k])]]

\* Poisson.link_function: Poisson(rate = exp(f)), elementwise.
Poisson_link_function(self, f) ==
    [family |-> "Poisson", rate |-> [k \in 1..Len(f) |-> Exp(f[k])]]

\* self.link_function(f), dispatched on the class of self.
link_function(self, f) ==
    CASE self.cls = "Gaussian" -> Gaussian_link_function(self, f)
      [] self.cls = "Bernoulli" -> Bernoulli_link_function(self, f)
      [] OTHER -> Poisson_link_function(self, f)

\* ----------------------------------------------------------------- predict
\* A latent posterior: dist.mean() is a sequence of n numbers and
\* dist.covariance() an n-by-n matrix (a sequence of rows).
Diag(cov) == [i \in 1..Len(cov) |-> cov[i][i]]

\* predict adding the noise scale instead of its square.
Gaussian_predict_unsquared(self, dist) ==
    LET n_data == Len(dist.mean)
        s == self.obs_stddev.value
    IN IF Len(s) \notin {1, n_data} THEN Raises
       ELSE [family |-> "MultivariateNormalFullCovariance",
             loc |-> dist.mean,
             covariance_matrix |->
                 [i \in 1..n_data |-> [j \in 1..n_data |->
                     IF i = j
                     THEN dist.cov[i][j] + (IF Len(s) = 1 THEN s[1] ELSE s[i])
                     ELSE dist.cov[i][j]]]]

\* Gaussian.predict: cov.at[diag_indices(n_data)].add(obs_stddev.value ** 2).
\* The added array broadcasts against the n_data diagonal entries: a length
\* other than 1 or n_data is a shape error.
Gaussian_predict(self, dist) ==
    LET n_data == Len(dist.mean)
        s == self.obs_stddev.value
        sq == [k \in 1..Len(s) |-> s[k] * s[k]]
    IN IF Len(s) \notin {1, n_data} THEN Raises
       ELSE [family |-> "MultivariateNormalFullCovariance",
             loc |-> dist.mean,
             covariance_matrix |->
                 [i \in 1..n_data |-> [j \in 1..n_data |->
                     IF i = j
                     THEN dist.cov[i][j] + (IF Len(sq) = 1 THEN sq[1] ELSE sq[i])
                     ELSE dist.cov[i][j]]]]

RECURSIVE SumTo(_, _)
SumTo(row, k) == IF k = 0 THEN 0 ELSE row[k] + SumTo(row, k - 1)

\* predict taking the row sums of the covariance for the variance.
Bernoulli_predict_rowsum(self, dist) ==
    LET variance == [i \in 1..Len(dist.cov) |->
                        Abs(SumTo(dist.cov[i], Len(dist.cov[i])))]
        mean == dist.mean
    IN link_function(self,
           [i \in 1..Len(mean) |-> Divide(mean[i], Sqrt(1 + variance[i]))])

\* Bernoulli.predict: link_function(mean / sqrt(1 + diag(covariance))).
Bernoulli_predict(self, dist) ==
    LET variance == Diag(dist.cov)
        mean == dist.mean
    IN link_function(self,
           [i \in 1..Len(mean) |-> Divide(mean[i], Sqrt(1 + variance[i]))])

\* Poisson.predict: link_function(dist.mean()).
Poisson_predict(self, dist) == link_function(self, dist.mean)

\* self.predict(dist), dispatched on the class of self.
predict(self, dist) ==
    CASE self.cls = "Gaussian" -> Gaussian_predict(self, dist)
      [] self.cls = "Bernoulli" -> Bernoulli_predict(self, dist)
      [] OTHER -> Poisson_predict(self, dist)

\* ------------------------------------------------- expected log-likelihood
\* Element k of an array broadcast to a longer shape.
At(v, k) == IF Len(v) = 1 THEN v[1] ELSE v[k]

\* tfd.Distribution.log_prob(y): one exact term per element of the broadcast
\* of the distribution's parameters against y.
\*   Normal:    c * log(2 pi) / 2 - log(s) + num / den
\*   Bernoulli: y * log(p / ProbDen) + (1 - y) * log(1 - p / ProbDen)
\*   Poisson:   y * log(rate / Unit) - rate / Unit - log(y!)
TfdLogProb(dist, y) ==
    CASE dist.family = "Normal" ->
           LET L == Max2(Max2(Len(dist.loc), Len(dist.scale)), Len(y))
           IN [k \in 1..L |->
                 [c |-> -1, s |-> At(dist.scale, k),
                  num |-> -((At(y, k) - At(dist.loc, k))
                             * (At(y, k) - At(dist.loc, k))),
                  den |-> 2 * At(dist.scale, k) * At(dist.scale, k)]]
      [] dist.family = "Bernoulli" ->
           LET L == Max2(Len(dist.probs), Len(y))
           IN [k \in 1..L |-> [y |-> At(y, k), p |-> At(dist.probs, k)]]
      [] OTHER ->
           LET L == Max2(Len(dist.rate), Len(y))
           IN [k \in 1..L |-> [y |-> At(y, k), rate |-> At(dist.rate, k)]]

\* The functional without the batching: every row is scored against the
\* first observation.
log_prob_firstrow(fun, F, Y) ==
    [i \in 1..Len(Y) |-> TfdLogProb(link_function(fun.self, F[i]), Y[1])]

\* log_prob = vmap(lambda f, y: self.link_function(f).log_prob(y)), applied
\* to F and Y; fun is the closure (it holds self).  Row i of the result is
\* computed from row i of F and row i of Y alone (the rows have shape
\* [D] = [1]); the likelihood's parameters are closed over, not mapped.
log_prob(fun, F, Y) ==
    [i \in 1..Len(Y) |-> TfdLogProb(link_function(fun.self, F[i]), Y[i])]

\* AnalyticalGaussianIntegrator: the closed form of the expectation of the
\* Gaussian log-density, one term per element of the noise scale; it reads
\* likelihood.obs_stddev, which only a Gaussian likelihood has, and never
\* evaluates fun.
AnalyticalGaussianIntegrate(fun, y, mean, variance, likelihood) ==
    IF likelihood.obs_stddev = None THEN Raises
    ELSE LET s == likelihood.obs_stddev.value
         IN Array([i \in 1..Len(y) |->
                [rule |-> "closed_form",
                 terms |-> [j \in 1..Len(s) |->
                    [c |-> -1, s |-> s[j],
                     num |-> -((y[i] - mean[i]) * (y[i] - mean[i])
                               + variance[i]),
                     den |-> 2 * s[j] * s[j]]]]])

\* GHQuadratureIntegrator: the two-point Gauss-Hermite rule; datapoint i's
\* expectation is the equal-weight mean of the functional's values at
\* mean[i] - sqrt(variance[i]) and mean[i] + sqrt(variance[i]).
GHQuadratureIntegrate(fun, y, mean, variance, likelihood) ==
    LET Y == [i \in 1..Len(y) |-> <<y[i]>>]
        X(k) == [i \in 1..Len(y) |->
                    <<mean[i] + (2 * k - 3) * Sqrt(variance[i])>>]
        lo == log_prob(fun, X(1), Y)
        hi == log_prob(fun, X(2), Y)
    IN Array([i \in 1..Len(y) |-> [rule |-> "GH2", terms |-> <<lo[i], hi[i]>>]])

\* integrator(fun=..., y=..., mean=..., variance=..., likelihood=...).
IntegratorCall(integrator, fun, y, mean, variance, likelihood) ==
    IF integrator.cls = "AnalyticalGaussianIntegrator"
    THEN AnalyticalGaussianIntegrate(fun, y, mean, variance, likelihood)
    ELSE GHQuadratureIntegrate(fun, y, mean, variance, likelihood)

\* The closure lambda f, y: self.link_function(f).log_prob(y) under vmap.
Closure(self) == [name |-> "log_prob", self |-> self]

\* expected_log_likelihood handing the mean over as the variance and the
\* variance as the mean.
expected_log_likelihood_swapped(self, y, mean, variance) ==
    IntegratorCall(self.integrator, Closure(self), y, variance, mean, self)

\* AbstractLikelihood.expected_log_likelihood.
expected_log_likelihood(self, y, mean, variance) ==
    IntegratorCall(self.integrator, Closure(self), y, mean, variance, self)

\* ------------------------------------------------------------------ inputs
Classes == {"Gaussian", "Bernoulli", "Poisson"}

Ramp(n) == [i \in 1..n |-> i]
Const(n, a) == [i \in 1..n |-> a]

\* Values offered as obs_stddev for num_datapoints = n: scalars (one of
\* them not positive) and a per-datapoint vector.
ObsValues(n) == {<<0>>, <<2>>, Ramp(n)}

\* Gaussian.__init__'s default obs_stddev = 1.0.
obs_stddev_default == RawArg(<<1>>)

ObsArgs(n) ==
    {obs_stddev_default}
    \cup {RawArg(v) : v \in ObsValues(n)}
    \cup {PositiveReal(v) : v \in {w \in ObsValues(n) : AllPositive(w)}}
    \cup {Static(v) : v \in ObsValues(n)}

\* The obs_stddev arguments of the constructions in the life of the objects:
\* the default, a raw value that is not positive, a per-datapoint
\* PositiveReal and two Statics.
LifeObsArgs ==
    {obs_stddev_default, RawArg(<<0>>), PositiveReal(Ramp(MaxN)),
     Static(<<0>>), Static(<<2>>)}

IntegratorArgs == {None} \cup CallerIntegrators

\* Values the optimizer may write into a PositiveReal of n elements: the
\* constraining bijection keeps every element strictly positive.
PositiveValues(n) == {Const(n, 2), Ramp(n)}

MeanVals == {-6, 0, 6}
DiagVals == {3, 8}
OffVals == {-1, 0, 1}

\* The covariance with diagonal d and c in every off-diagonal entry
\* (diagonally dominant, so positive definite).
Cov(d, c) == [i \in 1..Len(d) |-> [j \in 1..Len(d) |->
                 IF i = j THEN d[i] ELSE c]]

Posteriors(n) ==
    {[mean |-> m, cov |-> Cov(d, c)] :
        m \in [1..n -> MeanVals], d \in [1..n -> DiagVals], c \in OffVals}

Alternate(n, x) == [i \in 1..n |-> IF i % 2 = 1 THEN x ELSE -x]

\* Latent values handed to link_function.
Latents == {Alternate(n, x) : n \in 1..MaxN, x \in (-MaxX)..MaxX}

YVals == {0, 1}
MVals == {0, 1}
VVals == {1, 4}

\* The batches (y, mean, variance) of n datapoints.
Batches(n) ==
    {<<y, m, v>> : y \in [1..n -> YVals], m \in [1..n -> MVals],
                   v \in [1..n -> VVals]}

\* ----------------------------------------------------------------- actions
NoCall == [op |-> "none", self |-> 0, args |-> <<>>, value |-> None]

Init ==
    /\ liks = <<>>
    /\ ctor = <<>>
    /\ last = NoCall

\* cls(num_datapoints, obs_stddev, integrator): the new instance joins the
\* live ones, or the constructor raises and nothing is created.
Construct(cls, num_datapoints, obs_stddev, integ) ==
    /\ Len(liks) < MaxInstances
    /\ LET obj == Instantiate(cls, num_datapoints, obs_stddev, integ, Len(liks))
       IN IF obj = Raises
          THEN /\ last' = [op |-> "__init__", self |-> 0,
                           args |-> <<cls, obs_stddev, integ>>, value |-> Raises]
               /\ UNCHANGED <<liks, ctor>>
          ELSE /\ liks' = Append(liks, obj)
               /\ ctor' = Append(ctor, [obs_stddev |-> obs_stddev,
                                        integrator |-> integ])
               /\ last' = [op |-> "__init__", self |-> Len(liks) + 1,
                           args |-> <<cls, obs_stddev, integ>>, value |-> None]

LinkFunctionCall(i, f) ==
    /\ last' = [op |-> "link_function", self |-> i, args |-> <<f>>,
                value |-> link_function(liks[i], f)]
    /\ UNCHANGED <<liks, ctor>>

\* A predict that keeps the squared noise in the parameter it read.
PredictCallStoresNoise(i, dist) ==
    /\ last' = [op |-> "predict", self |-> i, args |-> <<dist>>,
                value |-> predict(liks[i], dist)]
    /\ liks' = [liks EXCEPT ![i] =
                   IF @.obs_stddev = None THEN @
                   ELSE [@ EXCEPT !.obs_stddev.value =
                            [k \in 1..Len(@) |-> @[k] * @[k]]]]
    /\ UNCHANGED ctor

PredictCall(i, dist) ==
    /\ last' = [op |-> "predict", self |-> i, args |-> <<dist>>,
                value |-> predict(liks[i], dist)]
    /\ UNCHANGED <<liks, ctor>>

\* AbstractLikelihood.__call__: return self.predict(*args, **kwargs).
CallCall(i, dist) ==
    /\ last' = [op |-> "__call__", self |-> i, args |-> <<dist>>,
                value |-> predict(liks[i], dist)]
    /\ UNCHANGED <<liks, ctor>>

ExpectedLogLikelihoodCall(i, y, mean, variance) ==
    /\ last' = [op |-> "expected_log_likelihood", self |-> i,
                args |-> <<y, mean, variance>>,
                value |-> expected_log_likelihood(liks[i], y, mean, variance)]
    /\ UNCHANGED <<liks, ctor>>

\* The external optimizer writes a new value into a trainable parameter
\* between calls; a Static is not trained.
OptimizerStep(i, v) ==
    /\ liks[i].obs_stddev # None
    /\ liks[i].obs_stddev.kind = "PositiveReal"
    /\ v # liks[i].obs_stddev.value
    /\ liks' = [liks EXCEPT ![i].obs_stddev.value = v]
    /\ last' = [op |-> "optimizer_step", self |-> i, args |-> <<v>>,
                value |-> None]
    /\ UNCHANGED ctor

\* ------------------------------------------------------ the life of objects
\* Likelihoods are constructed, called with one input each and trained.
LifePosterior == [mean |-> Const(MaxN, 0), cov |-> Cov(Const(MaxN, 3), 1)]

Next ==
    \/ \E cls \in Classes, integ \in IntegratorArgs :
          \E obs \in (IF cls = "Gaussian" THEN LifeObsArgs ELSE {None}) :
             Construct(cls, MaxN, obs, integ)
    \/ \E i \in 1..Len(liks) : LinkFunctionCall(i, <<0>>)
    \/ \E i \in 1..Len(liks) : PredictCall(i, LifePosterior)
    \/ \E i \in 1..Len(liks) : CallCall(i, LifePosterior)
    \/ \E i \in 1..Len(liks) :
          ExpectedLogLikelihoodCall(i, Const(MaxN, 1), Const(MaxN, 0),
                                    Const(MaxN, 1))
    \/ \E i \in 1..Len(liks) :
          \E v \in PositiveValues(
                     IF liks[i].obs_stddev = None THEN 1
                     ELSE Len(liks[i].obs_stddev.value)) :
             OptimizerStep(i, v)

Spec == Init /\ [][Next]_vars

\* ------------------------------------------------- the operations as maps
\* One likelihood, constructed from any of the arguments, and one input
\* drawn from the bounded sets; each operation is applied to the input.
Input(kind, x) == [op |-> "input", self |-> 1, args |-> <<kind, x>>,
                   value |-> None]

InitFn ==
    /\ \/ \E f \in Latents : last = Input("latent", f)
       \/ \E n \in 1..MaxN : \E dist \in Posteriors(n) :
             last = Input("posterior", dist)
       \/ \E n \in 1..MaxN : \E b \in Batches(n) : last = Input("batch", b)
    /\ \E cls \in Classes, integ \in IntegratorArgs :
          \E obs \in (IF cls = "Gaussian" THEN ObsArgs(MaxN) ELSE {None}) :
             LET obj == Instantiate(cls, MaxN, obs, integ, 0)
             IN /\ obj # Raises
                /\ liks = <<obj>>
                /\ ctor = <<[obs_stddev |-> obs, integrator |-> integ]>>

Pending(kind) == last.op = "input" /\ last.args[1] = kind

NextFn ==
    \/ Pending("latent") /\ LinkFunctionCall(1, last.args[2])
    \/ Pending("posterior") /\ PredictCall(1, last.args[2])
    \/ Pending("posterior") /\ CallCall(1, last.args[2])
    \/ Pending("batch")
       /\ ExpectedLogLikelihoodCall(1, last.args[2][1], last.args[2][2],
                                    last.args[2][3])

SpecFn == InitFn /\ [][NextFn]_vars

\* ------------------------------------------------------------------ claims
IsCall(ops) == last.op \in ops /\ last.self \in 1..Len(liks)
IsPredictOf(cls) ==
    IsCall({"predict", "__call__"}) /\ liks[last.self].cls = cls
Sigma == liks[last.self].obs_stddev.value
AnalyticCls == "AnalyticalGaussianIntegrator"
QuadratureCls == "GHQuadratureIntegrator"

\* C1: for a positive scalar noise scale sigma, Gaussian.predict returns a
\* full-covariance Normal with the posterior's mean and the covariance
\* C + sigma^2 * I: every diagonal entry is C's plus sigma^2 and every
\* off-diagonal entry is C's.
C1_GaussianPredictAddsNoise ==
    (IsPredictOf("Gaussian") /\ Len(Sigma) = 1 /\ Sigma[1] > 0) =>
        LET dist == last.args[1]
            n == Len(dist.mean)
            out == last.value
        IN /\ out.family = "MultivariateNormalFullCovariance"
           /\ out.loc = dist.mean
           /\ \A i \in 1..n : \A j \in 1..n :
                 out.covariance_matrix[i][j] =
                     IF i = j THEN dist.cov[i][j] + Sigma[1] * Sigma[1]
                     ELSE dist.cov[i][j]

C1_Witness ==
    /\ IsPredictOf("Gaussian")
    /\ Sigma = <<2>>
    /\ Len(last.args[1].mean) = 2
    /\ last.args[1].cov[1][2] = 1
    /\ last.value.covariance_matrix = <<<<7, 1>>, <<1, 12>>>>

\* C2: a Gaussian constructed without an integrator argument has the
\* analytic integrator, a Bernoulli or Poisson one the quadrature
\* integrator; an integrator the caller supplied is the one stored, and the
\* stored one is the one expected_log_likelihood evaluates with.
C2_DefaultIntegratorPolicy ==
    /\ \A i \in 1..Len(liks) :
          IF ctor[i].integrator = None
          THEN liks[i].integrator.cls =
                  (IF liks[i].cls = "Gaussian" THEN AnalyticCls
                   ELSE QuadratureCls)
          ELSE liks[i].integrator = ctor[i].integrator
    /\ (IsCall({"expected_log_likelihood"}) /\ last.value # Raises) =>
          \A k \in 1..Len(last.value.data) :
             last.value.data[k].rule =
                 (IF liks[last.self].integrator.cls = AnalyticCls
                  THEN "closed_form" ELSE "GH2")

C2_Witness ==
    /\ Len(liks) = 2
    /\ liks[1].cls = "Gaussian" /\ ctor[1].integrator = None
    /\ liks[2].cls = "Gaussian" /\ ctor[2].integrator # None
    /\ liks[2].integrator.cls = QuadratureCls
    /\ IsCall({"expected_log_likelihood"}) /\ last.self = 2
    /\ last.value.data[1].rule = "GH2"

\* C3 (as claimed): no Bernoulli or Poisson likelihood has the analytic
\* Gaussian integrator, whatever integrator was passed to its constructor.
C3_NonGaussianNeverAnalytic ==
    \A i \in 1..Len(liks) :
        liks[i].cls \in {"Bernoulli", "Poisson"} =>
            liks[i].integrator.cls # AnalyticCls

\* C3 (amended): a Bernoulli or Poisson likelihood has the analytic
\* integrator exactly when the caller passed one to its constructor; the
\* default is never analytic and the constructor stores what it is given.
C3_NonGaussianAnalyticIffPassed ==
    \A i \in 1..Len(liks) :
        liks[i].cls \in {"Bernoulli", "Poisson"} =>
            ((liks[i].integrator.cls = AnalyticCls)
               <=> (/\ ctor[i].integrator # None
                    /\ ctor[i].integrator.cls = AnalyticCls))

C3_Witness ==
    \E i \in 1..Len(liks) :
        /\ liks[i].cls = "Bernoulli"
        /\ ctor[i].integrator # None
        /\ liks[i].integrator.cls = AnalyticCls

\* C4 (as claimed): every element of a Gaussian likelihood's obs_stddev is
\* strictly positive, whatever the constructor was given.
C4_ObsStddevAlwaysPositive ==
    \A i \in 1..Len(liks) :
        liks[i].cls = "Gaussian" => AllPositive(liks[i].obs_stddev.value)

\* C4 (amended): a raw value is wrapped into a PositiveReal, a PositiveReal
\* or Static is stored as given, and every element of an obs_stddev held as
\* a PositiveReal is strictly positive, also after the optimizer's writes; a
\* Static is not checked.
C4_ObsStddevPositiveUnlessStatic ==
    \A i \in 1..Len(liks) :
        liks[i].cls = "Gaussian" =>
            LET held == liks[i].obs_stddev
                given == ctor[i].obs_stddev
            IN /\ held.kind \in {"PositiveReal", "Static"}
               /\ held.kind =
                     (IF given.kind = "raw" THEN "PositiveReal" ELSE given.kind)
               /\ given.kind = "Static" => held = given
               /\ held.kind = "PositiveReal" => AllPositive(held.value)

C4_Witness ==
    /\ Len(liks) = 2
    /\ ctor[1].obs_stddev = RawArg(<<1>>)
    /\ liks[1].obs_stddev = [kind |-> "PositiveReal", value |-> <<2>>]
    /\ ctor[2].obs_stddev = Static(<<2>>)
    /\ liks[2].obs_stddev = Static(<<2>>)
    /\ last.op = "predict"

\* The batch with datapoint j replaced by (y, m, v).
Replace(b, j, y, m, v) ==
    <<[b[1] EXCEPT ![j] = y], [b[2] EXCEPT ![j] = m], [b[3] EXCEPT ![j] = v]>>

RowPermutations(n) ==
    {p \in [1..n -> 1..n] : \A a, b \in 1..n : p[a] = p[b] => a = b}

Permute(x, p) == [i \in 1..Len(x) |-> x[p[i]]]

C6_PredictIgnoresOffDiagonal ==
    /\ IsPredictOf("Bernoulli") =>
          LET self == liks[last.self]
              dist == last.args[1]
              n == Len(dist.mean)
          IN /\ last.value =
                   [family |-> "Bernoulli",
                    probs |-> [i \in 1..n |->
                       inv_probit(Divide(dist.mean[i],
                                         Sqrt(1 + dist.cov[i][i])))]]
             /\ \A c \in OffVals :
                   predict(self, [mean |-> dist.mean,
                                  cov |-> Cov(Diag(dist.cov), c)])
                      = last.value
    /\ IsPredictOf("Poisson") =>
          LET self == liks[last.self]
              dist == last.args[1]
              n == Len(dist.mean)
          IN /\ last.value =
                   [family |-> "Poisson",
                    rate |-> [i \in 1..n |-> Exp(dist.mean[i])]]
             /\ \A other \in Posteriors(n) :
                   other.mean = dist.mean => predict(self, other) = last.value

C6_Witness ==
    /\ IsPredictOf("Bernoulli")
    /\ last.args[1] = [mean |-> <<6, -6>>, cov |-> <<<<3, -1>>, <<-1, 8>>>>]
    /\ last.value.probs = <<inv_probit(3), inv_probit(-2)>>

\* C7: inv_probit(x) = raw * (1 - 2 eps) + eps with
\* raw = 0.5 * (1 + erf(x / sqrt(2))) and eps = 1e-3: the result lies in
\* [1e-3, 1 - 1e-3], also where raw saturates, and inv_probit(0) = 0.5.
C7_InvProbitRange ==
    (IsCall({"link_function"}) /\ liks[last.self].cls = "Bernoulli") =>
        LET f == last.args[1]
            probs == last.value.probs
        IN /\ Len(probs) = Len(f)
           /\ \A k \in 1..Len(f) :
                 LET raw2 == Unit + ErfOverSqrt2(f[k])
                 IN \* probs[k] / ProbDen = (raw2 / (2 Unit)) (1 - 2/Unit) + 1/Unit
                    /\ probs[k] * Unit = raw2 * (Unit - 2) * Unit + ProbDen
                    /\ probs[k] * JitterInv >= ProbDen
                    /\ (ProbDen - probs[k]) * JitterInv >= ProbDen
                    /\ f[k] = 0 => 2 * probs[k] = ProbDen

C7_Witness ==
    /\ IsCall({"link_function"})
    /\ liks[last.self].cls = "Bernoulli"
    /\ last.args[1] = <<5, -5>>
    /\ last.value.probs[1] * JitterInv = ProbDen * (JitterInv - 1)
    /\ last.value.probs[2] * JitterInv = ProbDen

\* C8: for a Gaussian likelihood with positive scalar noise scale sigma and
\* its default integrator, element i of expected_log_likelihood is
\* -0.5 log(2 pi) - log(sigma) - ((y - mean)^2 + variance) / (2 sigma^2);
\* for y = [1], mean = [0], variance = [1], sigma = 1 it is
\* -0.5 log(2 pi) - 1.
C8_GaussianClosedForm ==
    (/\ IsCall({"expected_log_likelihood"})
     /\ liks[last.self].cls = "Gaussian"
     /\ ctor[last.self].integrator = None
     /\ Len(Sigma) = 1 /\ Sigma[1] > 0) =>
        LET y == last.args[1]
            mean == last.args[2]
            variance == last.args[3]
            out == last.value.data
        IN /\ Len(out) = Len(y)
           /\ \A i \in 1..Len(y) :
                 /\ Len(out[i].terms) = 1
                 /\ out[i].terms[1].c = -1
                 /\ out[i].terms[1].s = Sigma[1]
                 /\ out[i].terms[1].num =
                       -((y[i] - mean[i]) * (y[i] - mean[i]) + variance[i])
                 /\ out[i].terms[1].den = 2 * Sigma[1] * Sigma[1]
           /\ (y = <<1>> /\ mean = <<0>> /\ variance = <<1>> /\ Sigma = <<1>>)
                 => /\ out[1].terms[1].s = 1
                    /\ out[1].terms[1].num = -out[1].terms[1].den

C8_Witness ==
    /\ IsCall({"expected_log_likelihood"})
    /\ liks[last.self].cls = "Gaussian"
    /\ ctor[last.self].integrator = None
    /\ Sigma = <<1>>
    /\ last.args = <<<<1>>, <<0>>, <<1>>>>
    /\ last.value.data[1].terms[1] = [c |-> -1, s |-> 1, num |-> -2, den |-> 2]

\* C9: link_function, predict, __call__ and expected_log_likelihood leave
\* every likelihood's num_datapoints, integrator and parameter values as
\* they were; after construction a likelihood changes only by the
\* optimizer's write of a parameter value.
C9_CallsArePureReads ==
    [][/\ Len(liks') >= Len(liks)
       /\ last'.op \in {"link_function", "predict", "__call__",
                        "expected_log_likelihood"} => liks' = liks
       /\ \A i \in 1..Len(liks) :
             /\ liks'[i].cls = liks[i].cls
             /\ liks'[i].num_datapoints = liks[i].num_datapoints
             /\ liks'[i].integrator = liks[i].integrator
             /\ liks'[i] # liks[i] =>
                   /\ last'.op = "optimizer_step" /\ last'.self = i
                   /\ liks'[i].obs_stddev.kind = liks[i].obs_stddev.kind
                   /\ liks'[i].obs_stddev.kind = "PositiveReal"]_vars

C9_Witness ==
    /\ Len(liks) = 2
    /\ liks[1].cls = "Gaussian"
    /\ liks[1].obs_stddev = [kind |-> "PositiveReal", value |-> <<2>>]
    /\ ctor[1].obs_stddev = RawArg(<<1>>)
    /\ IsCall({"predict"}) /\ last.self = 1
    /\ last.value # Raises

\* C10 (as claimed): two likelihoods constructed without an integrator
\* argument hold distinct integrator objects.
C10_DefaultsNotShared ==
    \A i, j \in 1..Len(liks) :
        (i # j /\ ctor[i].integrator = None /\ ctor[j].integrator = None)
            => liks[i].integrator # liks[j].integrator

\* C10 (amended): the default integrator is built once per constructor
\* definition and shared: two likelihoods constructed without an integrator
\* argument hold the same object exactly when both are Gaussian or neither
\* is, and a likelihood constructed with an integrator holds the caller's
\* object.
C10_DefaultsSharedPerConstructor ==
    \A i, j \in 1..Len(liks) :
        /\ (i # j /\ ctor[i].integrator = None /\ ctor[j].integrator = None)
              => ((liks[i].integrator = liks[j].integrator)
                    <=> ((liks[i].cls = "Gaussian") <=> (liks[j].cls = "Gaussian")))
        /\ ctor[i].integrator # None => liks[i].integrator = ctor[i].integrator

C10_Witness ==
    /\ Len(liks) = 2
    /\ liks[1].cls = "Bernoulli" /\ liks[2].cls = "Poisson"
    /\ ctor[1].integrator = None /\ ctor[2].integrator = None
    /\ liks[1].integrator = liks[2].integrator

====
